---- MODULE Spec2Model ----
(***************************************************************************)
(* agent-ws: one accepted WebSocket connection of AgentWebSocketServer,    *)
(* its two lazily created runners (ClaudeRunner, CodexRunner), the         *)
(* subprocesses they spawn and the FileWatcher of the session directory.   *)
(* Every action is one callback of the Node.js event loop, run to          *)
(* completion together with the promise continuations it schedules.        *)
(***************************************************************************)
EXTENDS Integers, Sequences, FiniteSets, TLC

\* ---------------------------------------------------------------- bounds
MaxReq == 3
MaxEnv == 1
MaxLines == 2
MaxRejections == 3
MaxServerReq == 2
MaxWrites == 3
MaxWatchers == 1
MaxOther == 1

\* ------------------------------------------------------------- constants
NoReq == 0
Req == 1..MaxReq
Providers == {"claude", "codex"}
\* a projectId as the characters of the string; <<>> is "no projectId"
NoProject == <<>>
Projects == {NoProject, <<"p", "1">>, <<".", ".">>}
SpawnOutcomes == {"ok", "fail", "throw"}
ExitCodes == {"zero", "nonzero", "signal"}
LineKinds == {"chunk", "file_change", "failure"}
Paths == {"a.txt"}
WatchedPaths == {"a.txt", "b.txt"}

VARIABLES
  activeRequestId,  \* ConnectionState.activeRequestId (NoReq = null)
  activeRunner,     \* ConnectionState.activeRunner ("none" = null)
  created,          \* providers whose runner field is non-null
  fileWatcher,      \* ConnectionState.fileWatcher: id of the watcher, NoReq = null
  open,             \* ws.readyState === OPEN
  runner,           \* the fields of each Runner object
  run,              \* per run() call: the closure and its subprocess
  watcher,          \* per FileWatcher instance (named by the request that made it)
  flushes,          \* flushAndStopFileWatcher() calls awaiting flush()
  sent,             \* messages written to the socket, per requestId, in order
  isAlive,          \* ConnectionState.isAlive
  tracked,          \* the connection is in the server's connection set
  server,           \* the fields of the AgentWebSocketServer object
  imgDir,           \* the temp image directory shared by all CodexRunners
  io,               \* calls made by the last step on the file system,
                    \* the runner factories and the Runner interface
  nextReq,          \* next fresh client requestId
  used              \* optional environment events so far (stdout lines,
                    \* raw filesystem events, spawn failures, 'error' events)

vars == <<activeRequestId, activeRunner, created, fileWatcher, open, runner,
          run, watcher, flushes, sent, isAlive, tracked, server, imgDir, io,
          nextReq, used>>

\* nothing called yet in this step: directories made, watched or used as
\* working directory; providers whose runner was constructed; run() calls
\* in order; raw messages received in order; stdout lines read in order;
\* the heartbeat event handled ("tick", "pong" or "none") and whether it
\* called ws.ping() or ws.terminate(); the log.warn lines about rejected
\* connections; the status a refused socket was closed with (0: none);
\* the origin and token of the connection attempts handled; whether the
\* step was a call of stop()
IoNone ==
  [fs |-> {}, new |-> {}, runs |-> <<>>, recv |-> <<>>, lines |-> <<>>,
   hb |-> "none", ping |-> FALSE, terminate |-> FALSE,
   warn |-> {}, closeCode |-> 0, conn |-> <<>>, stop |-> FALSE, flushed |-> {}, exit |-> "none"]

\* ----------------------------------------------------------------- server
\* the origin header of a connection attempt; NoOrigin is an absent header,
\* which logRejection files under "(none)"
NoOrigin == "(none)"
Origins == {NoOrigin, "a", "b"}
\* the token query parameter; NoToken is an absent parameter
NoToken == "null"
Tokens == {NoToken, "t", "x"}
\* rejectionCounts.get(origin) === undefined
NoEntry == -1

\* the server object: wss, the two interval timers, rejectionCounts, the
\* options the checks read (allowedOrigins {} and authToken "" are "not
\* configured"), the options agentName and mode ("undefined" if not
\* given), whether a socket of the connection set was terminated
\* and its close event is still to come, and counters over the whole run:
\* logRejection calls, immediate log lines, rejections reported by
\* aggregated lines
NewServer(allowed, token) ==
  [wss |-> FALSE, heartbeatInterval |-> FALSE,
   rejectionFlushInterval |-> FALSE,
   rejectionCounts |-> [o \in Origins |-> NoEntry],
   allowedOrigins |-> allowed, authToken |-> token,
   agentName |-> "undefined", mode |-> "undefined",
   closePending |-> FALSE, accepted |-> FALSE,
   rejected |-> 0, logged |-> 0, reported |-> 0]

\* a started server without checks that has accepted its one connection
StartedServer ==
  [NewServer({}, "") EXCEPT !.wss = TRUE, !.heartbeatInterval = TRUE,
                            !.accepted = TRUE]

\* a connected message that passes the options on as they are
ConnectedMessageNoDefault(srv) ==
  [type |-> "connected", rid |-> 0,
   msg |-> "1.0/" \o srv.agentName \o "/" \o srv.mode]

\* the connected message: version, agent and mode, written "version/agent/mode"
ConnectedMessage(srv) ==
  [type |-> "connected", rid |-> 0,
   msg |-> "1.0/"
           \o (IF srv.agentName = "undefined" THEN "agent-ws" ELSE srv.agentName)
           \o "/"
           \o (IF srv.mode = "undefined" THEN "safe" ELSE srv.mode)]

\* ------------------------------------------------------- state as a value
Cur ==
  [active |-> activeRequestId, arunner |-> activeRunner, created |-> created,
   fw |-> fileWatcher, open |-> open, runner |-> runner, run |-> run,
   watcher |-> watcher, flushes |-> flushes, sent |-> sent,
   alive |-> isAlive, tracked |-> tracked, server |-> server,
   imgDir |-> imgDir, io |-> IoNone]

Commit(s) ==
  /\ activeRequestId' = s.active
  /\ activeRunner' = s.arunner
  /\ created' = s.created
  /\ fileWatcher' = s.fw
  /\ open' = s.open
  /\ runner' = s.runner
  /\ run' = s.run
  /\ watcher' = s.watcher
  /\ flushes' = s.flushes
  /\ sent' = s.sent
  /\ isAlive' = s.alive
  /\ tracked' = s.tracked
  /\ server' = s.server
  /\ imgDir' = s.imgDir
  /\ io' = s.io

Msg(t, r, m) == [type |-> t, rid |-> r, msg |-> m]

\* threadId: the run whose thread.started line was captured last (CodexRunner)
NewRunner ==
  [process |-> NoReq, timeout |-> NoReq, killed |-> FALSE, disposed |-> FALSE,
   threadId |-> NoReq]

\* ncb: terminal callbacks invoked through finish(); nline: terminal callbacks
\* invoked by parseStreamLine; resume: the
\* thread the subprocess was told to resume (CodexRunner)
NewRun ==
  [adm |-> FALSE, prov |-> "none", spawn |-> "none", exited |-> FALSE,
   errored |-> FALSE, fired |-> FALSE, done |-> FALSE, sig |-> FALSE, ncb |-> 0,
   nline |-> 0, resume |-> NoReq]

\* file[q]: who wrote the image file named after requestId q last ("absent":
\* no such file; "own": a run of this connection; "other": a run of another
\* connection); paths: the runs of this connection whose exit and error
\* handlers are registered and hold a non-empty imagePaths; other[q]: the
\* run of another connection with requestId q
NewImgDir ==
  [file |-> [q \in Req |-> "absent"], paths |-> {},
   other |-> [q \in Req |-> "none"]]

\* disk[p]: how many times p was written in the watched directory (0: absent);
\* restarts[p]: raw events for p that found p's debounce timer pending
NewWatcher ==
  [state |-> "off", pending |-> {}, reading |-> {},
   disk |-> [p \in WatchedPaths |-> 0],
   restarts |-> [p \in WatchedPaths |-> 0]]

\* ------------------------------------------------------------------ paths
\* a path is the sequence of its segments; resolve(tmpdir(), sessionDir)
Base == << <<"t", "m", "p">>, <<"s">> >>

\* path.resolve(base, id) for an id without a separator
Resolve(base, id) ==
  IF id = <<".", ".">> THEN SubSeq(base, 1, Len(base) - 1)
  ELSE IF id = <<".">> THEN base
  ELSE Append(base, id)

\* cwd.startsWith(base + "/") || cwd === base
Contained(base, cwd) ==
  \/ cwd = base
  \/ Len(cwd) > Len(base) /\ SubSeq(cwd, 1, Len(base)) = base

\* the containment test of run() fails for this projectId
InvalidProject(proj) ==
  proj # NoProject /\ ~Contained(Base, Resolve(Base, proj))

\* --------------------------------------------------------------- messages
\* undefined, for an optional number
Undefined == -1

\* a parsed prompt message with nothing optional but provider and projectId
PromptMessage(r, p, proj) ==
  [type |-> "prompt", requestId |-> r, provider |-> p, projectId |-> proj,
   prompt |-> 1, model |-> "undefined", systemPrompt |-> Undefined,
   thinkingTokens |-> Undefined, images |-> 0, files |-> 0]

\* run() options that lose the thinking budget
RunOptionsNoThinking(m) ==
  [prompt |-> m.prompt, model |-> m.model, systemPrompt |-> m.systemPrompt,
   projectId |-> m.projectId, requestId |-> m.requestId,
   thinkingTokens |-> Undefined, images |-> m.images, files |-> m.files]

\* the options object handlePrompt builds for run()
RunOptions(m) ==
  [prompt |-> m.prompt, model |-> m.model, systemPrompt |-> m.systemPrompt,
   projectId |-> m.projectId, requestId |-> m.requestId,
   thinkingTokens |-> m.thinkingTokens, images |-> m.images, files |-> m.files]

\* ------------------------------------------------------------ protocol.ts
MAX_PROMPT_BYTES == 524288
MAX_SYSTEM_PROMPT_BYTES == 65536
MAX_IMAGES == 4
MAX_PROJECT_ID_LENGTH == 128
MAX_FILES == 100

\* the characters PROJECT_ID_PATTERN admits
ProjectIdChars ==
  {"a", "b", "c", "d", "e", "f", "g", "h", "i", "j", "k", "l", "m",
   "n", "o", "p", "q", "r", "s", "t", "u", "v", "w", "x", "y", "z",
   "A", "B", "C", "D", "E", "F", "G", "H", "I", "J", "K", "L", "M",
   "N", "O", "P", "Q", "R", "S", "T", "U", "V", "W", "X", "Y", "Z",
   "0", "1", "2", "3", "4", "5", "6", "7", "8", "9", ".", "_", "-"}

\* PROJECT_ID_PATTERN.test(id)
ProjectIdPattern(id) ==
  Len(id) > 0 /\ \A i \in 1..Len(id) : id[i] \in ProjectIdChars

\* A raw message, by what parseClientMessage looks at:
\*   json            "object", "array" (any JSON value but an object), "invalid"
\*   type            "prompt", "cancel", "other" (another string), "missing"
\*   prompt          its UTF-8 length, Undefined if not a string
\*   requestId       NoReq if missing, empty or not a string
\*   model           "undefined" if not a string
\*   systemPrompt    its UTF-8 length, Undefined if not a string
\*   hasProjectId    projectId is a string
\*   provider        any JSON value, "undefined" if missing
\*   thinkingTokens  the number, Undefined if not a number
\*   images, files   the length of the array (0 if not an array)
\*   badImage        an element of images fails a per-image check
\*   badFile         an element of files fails a per-file check
ValidPrompt(r) ==
  [json |-> "object", type |-> "prompt", prompt |-> 1, requestId |-> r,
   model |-> "undefined", systemPrompt |-> Undefined, hasProjectId |-> FALSE,
   projectId |-> NoProject, provider |-> "undefined",
   thinkingTokens |-> Undefined, images |-> 0, badImage |-> FALSE,
   files |-> 0, badFile |-> FALSE]

ParseOk(m) == [ok |-> TRUE, message |-> m, error |-> ""]
ParseError(e) == [ok |-> FALSE, message |-> [type |-> "none"], error |-> e]

\* parseClientMessage(raw)
ParseClientMessage(raw) ==
  IF raw.json = "invalid" THEN ParseError("invalid_json")
  ELSE IF raw.json # "object" THEN ParseError("not_object")
  ELSE IF raw.type = "missing" THEN ParseError("missing_type")
  ELSE IF raw.type = "prompt" THEN
    IF raw.prompt = Undefined \/ raw.prompt = 0 THEN ParseError("empty_prompt")
    ELSE IF raw.prompt > MAX_PROMPT_BYTES THEN ParseError("prompt_too_large")
    ELSE IF raw.requestId = NoReq THEN ParseError("missing_request_id")
    ELSE IF raw.systemPrompt # Undefined /\ raw.systemPrompt > MAX_SYSTEM_PROMPT_BYTES
      THEN ParseError("system_prompt_too_large")
    ELSE IF raw.hasProjectId /\ Len(raw.projectId) > MAX_PROJECT_ID_LENGTH
      THEN ParseError("project_id_too_long")
    ELSE IF raw.hasProjectId /\ ~ProjectIdPattern(raw.projectId)
      THEN ParseError("project_id_chars")
    ELSE IF raw.images > MAX_IMAGES THEN ParseError("too_many_images")
    ELSE IF raw.images > 0 /\ raw.badImage THEN ParseError("bad_image")
    ELSE IF raw.files > MAX_FILES THEN ParseError("too_many_files")
    ELSE IF raw.files > 0 /\ raw.badFile THEN ParseError("bad_file")
    ELSE ParseOk(
      [type |-> "prompt", requestId |-> raw.requestId,
       provider |-> IF raw.provider = "codex" THEN "codex" ELSE "claude",
       projectId |-> IF raw.hasProjectId THEN raw.projectId ELSE NoProject,
       prompt |-> raw.prompt, model |-> raw.model,
       systemPrompt |-> raw.systemPrompt,
       thinkingTokens |-> IF raw.thinkingTokens >= 0 THEN raw.thinkingTokens
                          ELSE Undefined,
       images |-> raw.images, files |-> raw.files])
  ELSE IF raw.type = "cancel"
    THEN ParseOk([type |-> "cancel", requestId |-> raw.requestId])
  ELSE ParseError("unknown_type")

\* ------------------------------------------------------------ websocket.ts
\* sendMessage: dropped unless the socket is OPEN
SendMessage(s, m) ==
  IF s.open
  THEN [s EXCEPT !.sent[m.rid] = Append(@, [type |-> m.type, msg |-> m.msg])]
  ELSE s

\* ------------------------------------------------------------ FileWatcher
\* stop(): cancels observation and every pending timer; nothing is emitted
\* afterwards, also not for reads in flight
WatcherStop(s, w) ==
  [s EXCEPT !.watcher[w].state = "off",
            !.watcher[w].pending = {},
            !.watcher[w].reading = {}]

\* the change record of a path whose read gave the n-th written content, or
\* failed because the file is absent
ChangeText(path, n) ==
  IF n = 0 THEN path \o " deleted" ELSE path \o " v" \o ToString(n)

\* a change delivered to the handler whether or not the watcher was stopped
WatcherEmitAlways(s, w, path) ==
  SendMessage(s, Msg("file_change", w,
                     ChangeText(path, s.watcher[w].disk[path])))

\* the change handler registered in handlePrompt: handlers.onFileChange
WatcherEmit(s, w, path) ==
  IF s.watcher[w].state = "running"
  THEN SendMessage(s, Msg("file_change", w,
                          ChangeText(path, s.watcher[w].disk[path])))
  ELSE s

\* a raw filesystem event that starts a new timer without clearing the one
\* already pending for the path, which then still expires
WatcherOnRawEventNoClear(s, w, path) ==
  IF s.watcher[w].state # "running" THEN s
  ELSE [s EXCEPT !.watcher[w].pending = @ \cup {path},
                 !.watcher[w].reading =
                    IF path \in s.watcher[w].pending THEN @ \cup {path} ELSE @,
                 !.watcher[w].restarts[path] =
                    IF path \in s.watcher[w].pending THEN @ + 1 ELSE @]

\* the listener of raw filesystem events: (re)start the path's debounce timer
WatcherOnRawEvent(s, w, path) ==
  IF s.watcher[w].state # "running" THEN s
  ELSE [s EXCEPT !.watcher[w].pending = @ \cup {path},
                 !.watcher[w].restarts[path] =
                    IF path \in s.watcher[w].pending THEN @ + 1 ELSE @]

\* a write of path in the directory of watcher w, and the raw event it raises
FileWritten(s, w, path) ==
  WatcherOnRawEvent([s EXCEPT !.watcher[w].disk[path] = @ + 1], w, path)

\* a flush() that starts the reads and leaves the timers running
WatcherFlushStartKeepTimers(s, w) == s

\* flush(), first half: every pending debounce timer is cancelled and the
\* read of each pending path is started
WatcherFlushStart(s, w) ==
  [s EXCEPT !.watcher[w].pending = {}]

\* flush(), second half: the reads are done and each change is delivered
RECURSIVE WatcherFlushEnd(_, _, _)
WatcherFlushEnd(s, w, paths) ==
  IF paths = {} THEN s
  ELSE LET p == CHOOSE x \in paths : TRUE
       IN WatcherFlushEnd(WatcherEmit(s, w, p), w, paths \ {p})

\* ------------------------------------------------------------------ Runner
ClearTimeout(s, p) == [s EXCEPT !.runner[p].timeout = NoReq]

Kill(s, p) ==
  LET s1 == ClearTimeout(s, p)
      x == s1.runner[p].process
  IN IF x # NoReq
     THEN [s1 EXCEPT !.runner[p].killed = TRUE,
                     !.runner[p].process = NoReq,
                     !.run[x].sig = TRUE]
     ELSE s1

Dispose(s, p) == Kill([s EXCEPT !.runner[p].disposed = TRUE], p)

\* ------------------------------------------- handlers built by handlePrompt
\* a continuation that sends the terminal but keeps the request active
TerminalKeepActive(s, r, kind, m) ==
  SendMessage(s, Msg(kind, r, m))

\* the .then/.catch continuation of onComplete / onError
Terminal(s, r, kind, m) ==
  SendMessage([s EXCEPT !.active = NoReq], Msg(kind, r, m))

\* onComplete / onError: flushAndStopFileWatcher() and its continuation
OnTerminal(s, r, kind, m) ==
  LET w == s.fw IN
  IF w = NoReq THEN Terminal(s, r, kind, m)
  ELSE IF s.watcher[w].pending = {}
       THEN Terminal([WatcherStop(s, w) EXCEPT !.fw = NoReq], r, kind, m)
       ELSE [WatcherFlushStart(s, w) EXCEPT
               !.flushes = @ \cup {[rid |-> r, kind |-> kind, msg |-> m,
                                    w |-> w, paths |-> s.watcher[w].pending,
                                    seen |-> s.watcher[w].disk]}]

\* finish(cb) of one run() call
Finish(s, r, kind, m) ==
  IF s.run[r].done THEN s
  ELSE OnTerminal(ClearTimeout([s EXCEPT !.run[r].done = TRUE,
                                         !.run[r].ncb = @ + 1], s.run[r].prov),
                  r, kind, m)

\* a run() that does not look at disposed
RunnerRunUndisposed(s, p, o, outcome) ==
  LET r == o.requestId
      s1 == Kill(s, p)
      s2 == [s1 EXCEPT !.runner[p].killed = FALSE]
  IN IF InvalidProject(o.projectId) THEN OnTerminal(s2, r, "error", "invalid_project")
     ELSE IF outcome = "throw" THEN OnTerminal(s2, r, "error", "spawn")
     ELSE [s2 EXCEPT !.runner[p].process = r,
                     !.runner[p].timeout = r,
                     !.run[r].spawn = outcome]

\* CodexRunner.run: the images of the call are written to
\* <tmpdir>/agent-ws-images/<safeId>-<i>.<ext>, safeId from the requestId
WriteImages(s, p, o) ==
  IF p = "codex" /\ o.images > 0
  THEN [s EXCEPT !.imgDir.file[o.requestId] = "own"]
  ELSE s

\* CodexRunner.run: the exit and error handlers registered on the spawned
\* process close over cleanupImages and, through it, imagePaths
RegisterCleanup(s, p, o) ==
  IF p = "codex" /\ o.images > 0
  THEN [s EXCEPT !.imgDir.paths = @ \cup {o.requestId}]
  ELSE s

\* cleanupImages called from a handler of run r: unlink every path in
\* imagePaths
CleanupImages(s, r) ==
  IF r \in s.imgDir.paths THEN [s EXCEPT !.imgDir.file[r] = "absent"] ELSE s

\* cleanupImages called in run() itself, after spawn threw
CleanupImagesInRun(s, p, o) ==
  IF p = "codex" /\ o.images > 0
  THEN [s EXCEPT !.imgDir.file[o.requestId] = "absent"]
  ELSE s

\* CodexRunner.run: resuming = !!(projectId && this.threadId); the thread
\* passed to "exec resume", or none
BuildCodexArgs(s, p, o) ==
  IF p = "codex" /\ o.projectId # NoProject /\ s.runner[p].threadId # NoReq
  THEN s.runner[p].threadId ELSE NoReq

\* Runner.run(options, handlers)
RunnerRun(s, p, o, outcome) ==
  LET r == o.requestId
      cwd == Resolve(Base, o.projectId)
      dirs(ops) == IF o.projectId = NoProject THEN {}
                   ELSE {[op |-> x, dir |-> cwd] : x \in ops}
  IN IF s.runner[p].disposed THEN OnTerminal(s, r, "error", "disposed")
     ELSE LET s1 == WriteImages(Kill(s, p), p, o)
              s2 == [s1 EXCEPT !.runner[p].killed = FALSE]
              s3 == [s2 EXCEPT !.io.fs = @ \cup dirs({"mkdir"})]
          IN IF InvalidProject(o.projectId)
             THEN OnTerminal(s2, r, "error", "invalid_project")
             ELSE IF outcome = "throw"
                  THEN OnTerminal(CleanupImagesInRun(s3, p, o), r, "error",
                                  "spawn")
             ELSE [RegisterCleanup(s3, p, o)
                     EXCEPT !.runner[p].process = r,
                             !.runner[p].timeout = r,
                             !.run[r].spawn = outcome,
                             !.run[r].resume = BuildCodexArgs(s, p, o),
                             !.io.fs = @ \cup dirs({"cwd"})]

\* a handlePrompt without the single-flight guard
HandlePromptUnguarded(s, m, outcome) ==
  LET r == m.requestId
      p == m.provider
      s1 == [s EXCEPT !.active = r, !.created = @ \cup {p}, !.arunner = p,
                      !.run[r].adm = TRUE, !.run[r].prov = p]
  IN RunnerRun(s1, p, RunOptions([m EXCEPT !.projectId = NoProject]), outcome)

\* a runner selection that constructs a Runner for every prompt
SelectRunnerFresh(s, p) ==
  [s EXCEPT !.created = @ \cup {p}, !.arunner = p, !.runner[p] = NewRunner,
            !.io.new = @ \cup {p}]

\* handlePrompt: the runner of the provider, constructed if there is none yet
SelectRunner(s, p) ==
  [s EXCEPT !.created = @ \cup {p}, !.arunner = p,
            !.io.new = IF p \in s.created THEN @ ELSE @ \cup {p}]

HandlePrompt(s, m, outcome) ==
  LET r == m.requestId
      p == IF m.provider = "codex" THEN "codex" ELSE "claude"
      proj == m.projectId
      cwd == Resolve(Base, proj)
  IN IF s.active # NoReq
     THEN SendMessage(s, Msg("error", r, "in_progress"))
     ELSE LET s1 == SelectRunner([s EXCEPT !.active = r, !.run[r].adm = TRUE,
                                           !.run[r].prov = p], p)
              s2 == IF proj = NoProject THEN s1
                    ELSE [(IF s1.fw # NoReq THEN WatcherStop(s1, s1.fw) ELSE s1)
                           EXCEPT !.fw = r, !.watcher[r].state = "running",
                                  !.io.fs = @ \cup {[op |-> "mkdir", dir |-> cwd],
                                                    [op |-> "watch", dir |-> cwd]}]
              s3 == [s2 EXCEPT !.io.runs =
                       Append(@, [runner |-> p, options |-> RunOptions(m)])]
          IN RunnerRun(s3, p, RunOptions(m), outcome)

\* a handleCancel that leaves the runner alone
HandleCancelNoKill(s) ==
  LET requestId == s.active
      s1 == IF s.fw # NoReq THEN WatcherStop(s, s.fw) ELSE s
      s2 == [s1 EXCEPT !.fw = NoReq, !.active = NoReq]
  IN IF requestId # NoReq
     THEN SendMessage(s2, Msg("error", requestId, "cancelled"))
     ELSE s2

HandleCancel(s) ==
  LET requestId == s.active
      s1 == IF s.fw # NoReq THEN WatcherStop(s, s.fw) ELSE s
      s2 == [s1 EXCEPT !.fw = NoReq]
      s3 == IF s2.arunner # "none" THEN Kill(s2, s2.arunner) ELSE s2
      s4 == [s3 EXCEPT !.active = NoReq]
  IN IF requestId # NoReq
     THEN SendMessage(s4, Msg("error", requestId, "cancelled"))
     ELSE s4

\* a handleMessage that drops an invalid message without answering
HandleMessageSilent(s, raw, outcome) ==
  LET s0 == [s EXCEPT !.io.recv = Append(@, raw)]
      result == ParseClientMessage(raw)
  IN IF ~result.ok THEN s0
     ELSE IF result.message.type = "prompt"
          THEN HandlePrompt(s0, result.message, outcome)
          ELSE HandleCancel(s0)

\* a handleMessage that cancels only the request the cancel message names
HandleMessageMatching(s, raw, outcome) ==
  LET s0 == [s EXCEPT !.io.recv = Append(@, raw)]
      result == ParseClientMessage(raw)
  IN IF ~result.ok
     THEN SendMessage(s0, Msg("error", NoReq, result.error))
     ELSE IF result.message.type = "prompt"
          THEN HandlePrompt(s0, result.message, outcome)
          ELSE IF result.message.requestId = s.active THEN HandleCancel(s0)
               ELSE s0

\* handleMessage(ws, state, raw)
HandleMessage(s, raw, outcome) ==
  LET s0 == [s EXCEPT !.io.recv = Append(@, raw)]
      result == ParseClientMessage(raw)
  IN IF ~result.ok
     THEN SendMessage(s0, Msg("error", NoReq, result.error))
     ELSE IF result.message.type = "prompt"
          THEN HandlePrompt(s0, result.message, outcome)
          ELSE HandleCancel(s0)

\* process.on("exit")
OnExit(s, r, code) ==
  LET p == s.run[r].prov
      s0 == CleanupImages([s EXCEPT !.run[r].exited = TRUE,
                                    !.runner[p].process = NoReq], r)
      \* exit is the last event of a process: its handlers are dropped
      s1 == [s0 EXCEPT !.imgDir.paths = @ \ {r}]
      \* io.exit: the code the handler turns into a terminal callback
      s2 == IF s1.run[r].done THEN s1 ELSE [s1 EXCEPT !.io.exit = code]
  IN IF s1.runner[p].killed THEN s1
     ELSE IF code = "zero" THEN Finish(s2, r, "complete", "")
          ELSE Finish(s2, r, "error", code)

\* process.on("error")
OnProcError(s, r) ==
  LET p == s.run[r].prov
      s1 == CleanupImages([s EXCEPT !.run[r].errored = TRUE,
                                    !.runner[p].process = NoReq], r)
  IN Finish(s1, r, "error", "procerr")

\* the setTimeout callback armed by run()
OnTimeout(s, r) ==
  Finish(Kill([s EXCEPT !.run[r].fired = TRUE], s.run[r].prov), r, "error", "timeout")

\* parseStreamLine
ParseStreamLine(s, r, kind) ==
  CASE kind = "chunk" -> SendMessage(s, Msg("chunk", r, ""))
    [] kind = "file_change" -> SendMessage(s, Msg("file_change", r, "stdout"))
    [] kind = "failure" ->
         OnTerminal([s EXCEPT !.run[r].nline = @ + 1], r, "error", "turn_failed")

\* CodexRunner.parseStreamLine, a thread.started line of run r: the thread id
\* is kept for the runner's later runs
CodexThreadStarted(s, r) == [s EXCEPT !.runner["codex"].threadId = r]

\* ----------------------------------------------- ClaudeRunner stream-json
\* One NDJSON line of the subprocess: the event type, whether it comes
\* wrapped in a stream_event, and the delta / content block(s) it carries.
Block(t, text) == [type |-> t, text |-> text]
StreamEvent(t, blocks) == [type |-> t, wrapped |-> FALSE, blocks |-> blocks]
Wrapped(line) == [line EXCEPT !.wrapped = TRUE]

StreamLines ==
  {StreamEvent("content_block_delta", <<Block("text_delta", "a")>>),
   StreamEvent("content_block_delta", <<Block("thinking_delta", "b")>>),
   StreamEvent("content_block_delta", <<Block("text_delta", "")>>),
   StreamEvent("content_block_start", <<Block("tool_use", "t1")>>),
   StreamEvent("content_block_stop", <<>>),
   Wrapped(StreamEvent("content_block_delta", <<Block("text_delta", "b")>>)),
   StreamEvent("assistant", <<Block("thinking", "a"), Block("text", "b"),
                              Block("tool_use", "t1"), Block("text", "")>>),
   Wrapped(StreamEvent("assistant", <<Block("text", "a")>>)),
   StreamEvent("result", <<>>)}

\* what the handlers send for one delta or content block
BlockMessages(b) ==
  CASE b.type \in {"text_delta", "text"} /\ b.text # "" ->
         <<[type |-> "chunk", msg |-> b.text]>>
    [] b.type \in {"thinking_delta", "thinking"} /\ b.text # "" ->
         <<[type |-> "chunk", msg |-> "thinking:" \o b.text]>>
    [] OTHER -> <<>>

RECURSIVE AssistantMessages(_)
AssistantMessages(blocks) ==
  IF blocks = <<>> THEN <<>>
  ELSE (IF Head(blocks).type = "tool_use"
        THEN <<[type |-> "tool_event", msg |-> "start:" \o Head(blocks).text],
               [type |-> "tool_event", msg |-> "complete:" \o Head(blocks).text]>>
        ELSE BlockMessages(Head(blocks)))
       \o AssistantMessages(Tail(blocks))

\* the onChunk / onToolEvent calls parseStreamLine makes for a line, in order
LineMessages(line) ==
  CASE line.type = "content_block_delta" -> BlockMessages(line.blocks[1])
    [] line.type = "content_block_start" ->
         IF line.blocks[1].type = "tool_use"
         THEN <<[type |-> "tool_event", msg |-> "start:" \o line.blocks[1].text]>>
         ELSE <<>>
    [] line.type = "content_block_stop" ->
         <<[type |-> "tool_event", msg |-> "complete:"]>>
    [] line.type = "assistant" /\ ~line.wrapped -> AssistantMessages(line.blocks)
    [] OTHER -> <<>>

RECURSIVE SendAll(_, _, _)
SendAll(s, r, msgs) ==
  IF msgs = <<>> THEN s
  ELSE SendAll(SendMessage(s, Msg(Head(msgs).type, r, Head(msgs).msg)),
               r, Tail(msgs))

RECURSIVE Reverse(_)
Reverse(q) == IF q = <<>> THEN <<>> ELSE Append(Reverse(Tail(q)), Head(q))

\* a line handler that hands the messages of a line over last first
ClaudeParseStreamLineReversed(s, r, line) ==
  SendAll([s EXCEPT !.io.lines = Append(@, [rid |-> r, line |-> line])],
          r, Reverse(LineMessages(line)))

\* rl.on("line") -> parseStreamLine(line, handlers, requestId)
ClaudeParseStreamLine(s, r, line) ==
  SendAll([s EXCEPT !.io.lines = Append(@, [rid |-> r, line |-> line])],
          r, LineMessages(line))

\* a close handler that disposes only the runner last used
OnCloseActiveOnly(s) ==
  LET s1 == IF s.fw # NoReq THEN WatcherStop(s, s.fw) ELSE s
      s2 == IF s1.arunner # "none" THEN Dispose(s1, s1.arunner) ELSE s1
  IN [s2 EXCEPT !.open = FALSE, !.tracked = FALSE]

\* ws.on("close")
OnClose(s) ==
  LET s1 == IF s.fw # NoReq THEN WatcherStop(s, s.fw) ELSE s
      s2 == IF "claude" \in s1.created THEN Dispose(s1, "claude") ELSE s1
      s3 == IF "codex" \in s2.created THEN Dispose(s2, "codex") ELSE s2
  IN [s3 EXCEPT !.open = FALSE, !.tracked = FALSE]

\* ------------------------------------------------------------ server object
ORIGIN_NOT_ALLOWED == 4003
INVALID_TOKEN == 4401

\* logRejection(origin, reason)
LogRejection(s, origin) ==
  LET s0 == [s EXCEPT !.server.rejected = @ + 1]
  IN IF s0.server.rejectionCounts[origin] # NoEntry
     THEN [s0 EXCEPT !.server.rejectionCounts[origin] = @ + 1]
     ELSE [s0 EXCEPT !.io.warn = @ \cup {[origin |-> origin, count |-> 0]},
                     !.server.logged = @ + 1,
                     !.server.rejectionCounts[origin] = 0,
                     !.server.rejectionFlushInterval = TRUE]

\* the sum of the counts in rejectionCounts
RECURSIVE SumCounts(_, _)
SumCounts(counts, origins) ==
  IF origins = {} THEN 0
  ELSE LET o == CHOOSE x \in origins : TRUE
       IN (IF counts[o] > 0 THEN counts[o] ELSE 0)
          + SumCounts(counts, origins \ {o})

\* a flushRejections that keeps the counters
FlushRejectionsKeep(s) ==
  [s EXCEPT !.io.warn = @ \cup {[origin |-> o, count |-> s.server.rejectionCounts[o]] :
                                  o \in {x \in Origins : s.server.rejectionCounts[x] > 0}},
            !.server.reported = @ + SumCounts(s.server.rejectionCounts, Origins),
            !.server.rejectionFlushInterval = FALSE]

\* flushRejections()
FlushRejections(s) ==
  [s EXCEPT !.io.warn = @ \cup {[origin |-> o, count |-> s.server.rejectionCounts[o]] :
                                  o \in {x \in Origins : s.server.rejectionCounts[x] > 0}},
            !.server.reported = @ + SumCounts(s.server.rejectionCounts, Origins),
            !.server.rejectionCounts = [o \in Origins |-> NoEntry],
            !.server.rejectionFlushInterval = FALSE]

\* handleConnection that tests the token only
HandleConnectionNoOrigin(s0, origin, token) ==
  LET s == [s0 EXCEPT !.io.conn = Append(@, [origin |-> origin, token |-> token])]
  IN
  IF s.server.authToken # "" /\ token # s.server.authToken
  THEN [LogRejection(s, origin) EXCEPT !.io.closeCode = INVALID_TOKEN]
  ELSE SendMessage([s EXCEPT !.created = {}, !.arunner = "none", !.alive = TRUE,
                             !.active = NoReq, !.fw = NoReq,
                             !.tracked = TRUE, !.open = TRUE,
                             !.server.accepted = TRUE],
                   ConnectedMessage(s.server))

\* handleConnection(ws, req): the two checks, then the connection state,
\* the connection set and the connected message
HandleConnection(s0, origin, token) ==
  LET s == [s0 EXCEPT !.io.conn = Append(@, [origin |-> origin, token |-> token])]
  IN
  IF /\ s.server.allowedOrigins # {}
     /\ (origin = NoOrigin \/ origin \notin s.server.allowedOrigins)
  THEN [LogRejection(s, origin) EXCEPT !.io.closeCode = ORIGIN_NOT_ALLOWED]
  ELSE IF s.server.authToken # "" /\ token # s.server.authToken
  THEN [LogRejection(s, origin) EXCEPT !.io.closeCode = INVALID_TOKEN]
  ELSE SendMessage([s EXCEPT !.created = {}, !.arunner = "none", !.alive = TRUE,
                             !.active = NoReq, !.fw = NoReq,
                             !.tracked = TRUE, !.open = TRUE,
                             !.server.accepted = TRUE],
                   ConnectedMessage(s.server))

\* start(): the listening socket is up and the heartbeat is started
ServerStart(s) ==
  [s EXCEPT !.server.wss = TRUE, !.server.heartbeatInterval = TRUE]

\* a stop() that leaves the connection set alone
ServerStopKeepConnections(s) ==
  [FlushRejections([s EXCEPT !.server.heartbeatInterval = FALSE,
                             !.io.stop = TRUE])
     EXCEPT !.server.wss = FALSE]

\* stop()
ServerStop(s) ==
  LET s1 == FlushRejections([s EXCEPT !.server.heartbeatInterval = FALSE,
                                      !.io.stop = TRUE])
      s2 == IF s1.tracked
            THEN [OnClose(s1) EXCEPT !.io.terminate = TRUE,
                                     !.server.closePending = TRUE]
            ELSE s1
  IN [s2 EXCEPT !.server.wss = FALSE]

\* ---------------------------------------------------------------- heartbeat
\* a heartbeat that pings without clearing the liveness flag
HeartbeatTickNoClear(s) ==
  LET s0 == [s EXCEPT !.io.hb = "tick"]
  IN IF ~s0.alive
     THEN [OnClose(s0) EXCEPT !.io.terminate = TRUE]
     ELSE [s0 EXCEPT !.io.ping = TRUE]

\* startHeartbeat: the body of the interval callback for a tracked
\* connection; ws.terminate() leaves the socket not OPEN, and the close
\* event it raises finds nothing left to do
HeartbeatTick(s) ==
  LET s0 == [s EXCEPT !.io.hb = "tick"]
  IN IF ~s0.alive
     THEN [OnClose(s0) EXCEPT !.io.terminate = TRUE]
     ELSE [s0 EXCEPT !.alive = FALSE, !.io.ping = TRUE]

\* ws.on("pong")
OnPong(s) == [s EXCEPT !.alive = TRUE, !.io.hb = "pong"]

\* continuation of `await state.fileWatcher.flush()`
OnFlushed(s, f) ==
  LET s1 == WatcherFlushEnd([s EXCEPT !.flushes = @ \ {f}], f.w, f.paths)
      s2 == IF s1.fw # NoReq
            THEN [WatcherStop(s1, s1.fw) EXCEPT !.fw = NoReq]
            ELSE s1
  IN Terminal(s2, f.rid, f.kind, f.msg)

\* ------------------------------------------------------------------ actions
Init ==
  /\ activeRequestId = NoReq
  /\ activeRunner = "none"
  /\ created = {}
  /\ fileWatcher = NoReq
  /\ open = TRUE
  /\ runner = [p \in Providers |-> NewRunner]
  /\ run = [r \in Req |-> NewRun]
  /\ watcher = [r \in Req |-> NewWatcher]
  /\ flushes = {}
  /\ sent = [r \in 0..MaxReq |->
               IF r = NoReq
               THEN <<[type |-> "connected", msg |-> ConnectedMessage(StartedServer).msg]>>
               ELSE <<>>]
  /\ isAlive = TRUE
  /\ tracked = TRUE
  /\ server = StartedServer
  /\ imgDir = NewImgDir
  /\ io = IoNone
  /\ used = 0
  /\ nextReq = 1

\* a prompt message that passed parseClientMessage, its projectId among projs
PromptIn(projs) ==
  /\ open
  /\ nextReq <= MaxReq
  /\ \E p \in Providers, proj \in projs, outcome \in SpawnOutcomes :
       /\ outcome # "ok" => used < MaxEnv
       /\ Commit(HandlePrompt(Cur, PromptMessage(nextReq, p, proj), outcome))
       /\ used' = IF outcome # "ok" /\ activeRequestId = NoReq /\ ~InvalidProject(proj)
                  THEN used + 1 ELSE used
  /\ nextReq' = nextReq + 1

Prompt == PromptIn(Projects)

\* a prompt message that carries a projectId
ProjectPrompt == PromptIn(Projects \ {NoProject})

Cancel ==
  /\ open
  /\ Commit(HandleCancel(Cur))
  /\ UNCHANGED <<nextReq, used>>

ProcExit ==
  \E r \in Req, code \in ExitCodes :
    /\ run[r].spawn = "ok" \/ (run[r].spawn = "fail" /\ run[r].errored)
    /\ ~run[r].exited
    /\ Commit(OnExit(Cur, r, code))
    /\ UNCHANGED <<nextReq, used>>

ProcError ==
  \E r \in Req :
    /\ run[r].spawn = "fail"
    /\ ~run[r].errored
    /\ Commit(OnProcError(Cur, r))
    /\ UNCHANGED <<nextReq, used>>

Timeout ==
  \E r \in Req :
    /\ run[r].spawn # "none"
    /\ runner[run[r].prov].timeout = r
    /\ Commit(OnTimeout(Cur, r))
    /\ UNCHANGED <<nextReq, used>>

ProcLine ==
  \E r \in Req, kind \in LineKinds :
    /\ run[r].spawn = "ok"
    /\ used < MaxEnv
    /\ kind \in {"file_change", "failure"} => run[r].prov = "codex"
    /\ Commit(ParseStreamLine(Cur, r, kind))
    /\ used' = used + 1
    /\ UNCHANGED nextReq

FsEvent ==
  \E w \in Req, path \in Paths :
    /\ watcher[w].state = "running"
    /\ used < MaxEnv
    /\ Commit(FileWritten(Cur, w, path))
    /\ used' = used + 1
    /\ UNCHANGED nextReq

DebounceFire ==
  \E w \in Req, path \in WatchedPaths :
    /\ path \in watcher[w].pending
    /\ watcher' = [watcher EXCEPT ![w].pending = @ \ {path},
                                  ![w].reading = @ \cup {path}]
    /\ io' = IoNone
    /\ UNCHANGED <<activeRequestId, activeRunner, created, fileWatcher, open,
                   runner, run, flushes, sent, isAlive, tracked, server, imgDir,
                   nextReq, used>>

ReadDone ==
  \E w \in Req, path \in WatchedPaths :
    /\ path \in watcher[w].reading
    /\ Commit(WatcherEmit([Cur EXCEPT !.watcher[w].reading = @ \ {path}], w, path))
    /\ UNCHANGED <<nextReq, used>>

FlushDone ==
  \E f \in flushes :
    /\ Commit(OnFlushed(Cur, f))
    /\ UNCHANGED <<nextReq, used>>

Close ==
  /\ open
  /\ Commit(OnClose(Cur))
  /\ UNCHANGED <<nextReq, used>>

Next ==
  \/ Prompt
  \/ Cancel
  \/ ProcExit
  \/ ProcError
  \/ Timeout
  \/ ProcLine
  \/ FsEvent
  \/ DebounceFire
  \/ ReadDone
  \/ FlushDone
  \/ Close

Spec == Init /\ [][Next]_vars

\* the connection of a client whose prompts all carry a projectId, so that
\* every admitted request has a Change Watcher
WatchNext ==
  \/ ProjectPrompt
  \/ Cancel
  \/ ProcExit
  \/ ProcError
  \/ Timeout
  \/ ProcLine
  \/ FsEvent
  \/ DebounceFire
  \/ ReadDone
  \/ FlushDone
  \/ Close

WatchSpec == Init /\ [][WatchNext]_vars

\* ------------------------------------------------------- raw messages
\* a projectId of MAX_PROJECT_ID_LENGTH + 1 admitted characters
LongProjectId == [i \in 1..(MAX_PROJECT_ID_LENGTH + 1) |-> "a"]

\* prompt messages parseClientMessage accepts, with requestId r
AcceptedPrompts(r) ==
  {[ValidPrompt(r) EXCEPT !.provider = p] :
     p \in {"undefined", "claude", "codex", "gemini"}}
  \cup {[ValidPrompt(r) EXCEPT !.hasProjectId = TRUE, !.projectId = proj] :
     proj \in Projects \ {NoProject}}
  \cup {[ValidPrompt(r) EXCEPT !.provider = "codex", !.hasProjectId = TRUE,
                               !.projectId = <<"p", "1">>,
                               !.prompt = MAX_PROMPT_BYTES, !.model = "m1",
                               !.systemPrompt = MAX_SYSTEM_PROMPT_BYTES,
                               !.thinkingTokens = 1000,
                               !.images = MAX_IMAGES, !.files = MAX_FILES],
        [ValidPrompt(r) EXCEPT !.thinkingTokens = -2]}

\* messages parseClientMessage rejects; r is the requestId where one is given
RejectedMessages(r) ==
  {[ValidPrompt(NoReq) EXCEPT !.json = "invalid"],
   [ValidPrompt(r) EXCEPT !.json = "array"],
   [ValidPrompt(r) EXCEPT !.type = "missing"],
   [ValidPrompt(r) EXCEPT !.type = "other"],
   [ValidPrompt(r) EXCEPT !.prompt = Undefined],
   [ValidPrompt(r) EXCEPT !.prompt = 0],
   [ValidPrompt(r) EXCEPT !.prompt = MAX_PROMPT_BYTES + 1],
   ValidPrompt(NoReq),
   [ValidPrompt(r) EXCEPT !.systemPrompt = MAX_SYSTEM_PROMPT_BYTES + 1],
   [ValidPrompt(r) EXCEPT !.hasProjectId = TRUE, !.projectId = LongProjectId],
   [ValidPrompt(r) EXCEPT !.hasProjectId = TRUE, !.projectId = <<"a", "/", "b">>],
   [ValidPrompt(r) EXCEPT !.hasProjectId = TRUE, !.projectId = <<>>],
   [ValidPrompt(r) EXCEPT !.images = MAX_IMAGES + 1],
   [ValidPrompt(r) EXCEPT !.images = 1, !.badImage = TRUE],
   [ValidPrompt(r) EXCEPT !.files = MAX_FILES + 1],
   [ValidPrompt(r) EXCEPT !.files = 1, !.badFile = TRUE]}

CancelMessages ==
  {[ValidPrompt(q) EXCEPT !.type = "cancel"] : q \in {NoReq, 1}}

\* the message carries a requestId of its own
SuppliesRequestId(raw) ==
  raw.json # "invalid" /\ raw.type # "cancel" /\ raw.requestId # NoReq

\* handleMessage on raw; outcome is what spawn() does if it is reached
Receive(raw, outcome) ==
  LET result == ParseClientMessage(raw)
      spawns == /\ result.ok
                /\ result.message.type = "prompt"
                /\ activeRequestId = NoReq
                /\ ~InvalidProject(result.message.projectId)
      costs == ~result.ok \/ (spawns /\ outcome # "ok")
  IN /\ SuppliesRequestId(raw) => nextReq <= MaxReq
     /\ ~spawns => outcome = "ok"
     /\ costs => used < MaxEnv
     /\ Commit(HandleMessage(Cur, raw, outcome))
     /\ used' = IF costs THEN used + 1 ELSE used
     /\ nextReq' = IF SuppliesRequestId(raw) THEN nextReq + 1 ELSE nextReq

\* ws.on("message"): any raw message arrives on the open connection
Message ==
  /\ open
  /\ \/ /\ nextReq <= MaxReq
        /\ \E raw \in AcceptedPrompts(nextReq), outcome \in SpawnOutcomes :
             Receive(raw, outcome)
     \/ /\ used < MaxEnv
        /\ \E raw \in RejectedMessages(nextReq) : Receive(raw, "ok")
     \/ \E raw \in CancelMessages : Receive(raw, "ok")

\* the connection as the wire sees it: raw messages instead of parsed ones
WireNext ==
  \/ Message
  \/ ProcExit
  \/ ProcError
  \/ Timeout
  \/ ProcLine
  \/ FsEvent
  \/ DebounceFire
  \/ ReadDone
  \/ FlushDone
  \/ Close

WireSpec == Init /\ [][WireNext]_vars

\* ------------------------------------------------------------ heartbeat
\* the heartbeat interval fires while the connection is in the set
Tick ==
  /\ tracked
  /\ Commit(HeartbeatTick(Cur))
  /\ UNCHANGED <<nextReq, used>>

\* the client's pong frame arrives
Pong ==
  /\ open
  /\ Commit(OnPong(Cur))
  /\ UNCHANGED <<nextReq, used>>

HeartbeatNext ==
  \/ Prompt
  \/ Cancel
  \/ ProcExit
  \/ ProcError
  \/ Timeout
  \/ ProcLine
  \/ FsEvent
  \/ DebounceFire
  \/ ReadDone
  \/ FlushDone
  \/ Close
  \/ Tick
  \/ Pong

HeartbeatSpec == Init /\ [][HeartbeatNext]_vars

\* --------------------------------------------------------------- server
\* the server as constructed with one of the configurations, before
\* start() and before any connection
ServerInitWith(configs) ==
  /\ activeRequestId = NoReq
  /\ activeRunner = "none"
  /\ created = {}
  /\ fileWatcher = NoReq
  /\ open = FALSE
  /\ runner = [p \in Providers |-> NewRunner]
  /\ run = [r \in Req |-> NewRun]
  /\ watcher = [r \in Req |-> NewWatcher]
  /\ flushes = {}
  /\ sent = [r \in 0..MaxReq |-> <<>>]
  /\ isAlive = FALSE
  /\ tracked = FALSE
  /\ server \in configs
  /\ imgDir = NewImgDir
  /\ io = IoNone
  /\ used = 0
  /\ nextReq = 1

\* every configuration of the two checks
AdmissionInit ==
  ServerInitWith({NewServer(a, t) : a \in {{}, {"a"}}, t \in {"", "t"}})

\* an origin allow-list and no auth token, with and without the options
\* agentName and mode
ServerInit ==
  ServerInitWith({NewServer({"a"}, ""),
                  [NewServer({"a"}, "") EXCEPT !.agentName = "bot",
                                               !.mode = "agentic"]})

Start ==
  /\ ~server.wss
  /\ Commit(ServerStart(Cur))
  /\ UNCHANGED <<nextReq, used>>

\* wss.on("connection"): a client connects with some origin and token; the
\* model follows one accepted connection, refused ones are counted
Connect ==
  /\ server.wss
  /\ \E origin \in Origins, token \in Tokens :
       LET t == HandleConnection(Cur, origin, token)
       IN /\ t.io.closeCode = 0 => ~server.accepted
          /\ t.io.closeCode # 0 => server.rejected < MaxRejections
          /\ Commit(t)
  /\ UNCHANGED <<nextReq, used>>

\* the rejection-flush interval fires
RejectionFlush ==
  /\ server.rejectionFlushInterval
  /\ Commit(FlushRejections(Cur))
  /\ UNCHANGED <<nextReq, used>>

\* the heartbeat interval fires
ServerTick ==
  /\ server.heartbeatInterval
  /\ tracked
  /\ LET t == HeartbeatTick(Cur)
     IN Commit([t EXCEPT !.server.closePending = @ \/ t.io.terminate])
  /\ UNCHANGED <<nextReq, used>>

Stop ==
  /\ Commit(ServerStop(Cur))
  /\ UNCHANGED <<nextReq, used>>

\* the close event of a socket that stop() or the heartbeat terminated
LateClose ==
  /\ server.closePending
  /\ Commit([OnClose(Cur) EXCEPT !.server.closePending = FALSE])
  /\ UNCHANGED <<nextReq, used>>

\* a prompt on the accepted connection whose subprocess is spawned
ServerPrompt ==
  /\ open
  /\ nextReq <= MaxServerReq
  /\ \E p \in Providers, proj \in Projects :
       Commit(HandlePrompt(Cur, PromptMessage(nextReq, p, proj), "ok"))
  /\ nextReq' = nextReq + 1
  /\ UNCHANGED used

\* the server facing connection attempts only
AdmissionNext ==
  \/ Start
  \/ Connect
  \/ RejectionFlush
  \/ Stop
  \/ LateClose
  \/ Close

AdmissionSpec == AdmissionInit /\ [][AdmissionNext]_vars

\* the server with the traffic of its accepted connection
ServerNext ==
  \/ Start
  \/ Connect
  \/ RejectionFlush
  \/ ServerTick
  \/ Stop
  \/ LateClose
  \/ ServerPrompt
  \/ Cancel
  \/ ProcExit
  \/ Close

ServerSpec == ServerInit /\ [][ServerNext]_vars

\* ------------------------------------------------------------ streaming
\* the subprocess of a ClaudeRunner writes one more line to stdout
StreamLine ==
  \E r \in Req, line \in StreamLines :
    /\ run[r].spawn = "ok"
    /\ run[r].prov = "claude"
    /\ ~run[r].exited
    /\ used < MaxLines
    /\ Commit(ClaudeParseStreamLine(Cur, r, line))
    /\ used' = used + 1
    /\ UNCHANGED nextReq

\* a prompt for the claude runner without a projectId
ClaudePrompt ==
  /\ open
  /\ nextReq <= MaxReq
  /\ \E outcome \in SpawnOutcomes :
       /\ outcome # "ok" => used < MaxEnv
       /\ Commit(HandlePrompt(Cur, PromptMessage(nextReq, "claude", NoProject), outcome))
       /\ used' = IF outcome # "ok" /\ activeRequestId = NoReq
                  THEN used + 1 ELSE used
  /\ nextReq' = nextReq + 1

\* a connection whose claude subprocesses stream their output
StreamNext ==
  \/ ClaudePrompt
  \/ Cancel
  \/ StreamLine
  \/ ProcExit
  \/ ProcError
  \/ Timeout
  \/ Close

StreamSpec == Init /\ [][StreamNext]_vars

\* The Runner interface driven directly, as its owner may: run(), kill() and
\* dispose() in any order, between the events of the subprocesses.
RunCall ==
  /\ nextReq <= MaxReq
  /\ \E p \in Providers, proj \in Projects, outcome \in SpawnOutcomes :
       /\ outcome # "ok" => used < MaxEnv
       /\ Commit(RunnerRun([Cur EXCEPT !.run[nextReq].prov = p], p,
                            RunOptions(PromptMessage(nextReq, p, proj)), outcome))
       /\ used' = IF outcome # "ok" /\ ~runner[p].disposed /\ ~InvalidProject(proj)
                  THEN used + 1 ELSE used
  /\ nextReq' = nextReq + 1

KillCall ==
  \E p \in Providers :
    /\ Commit(Kill(Cur, p))
    /\ UNCHANGED <<nextReq, used>>

DisposeCall ==
  \E p \in Providers :
    /\ Commit(Dispose(Cur, p))
    /\ UNCHANGED <<nextReq, used>>

RunnerNext ==
  \/ RunCall
  \/ KillCall
  \/ DisposeCall
  \/ ProcExit
  \/ ProcError
  \/ Timeout
  \/ ProcLine

RunnerSpec == Init /\ [][RunnerNext]_vars

\* A client that talks to the codex runner only and changes the project
\* between its prompts: the first under one project, the second without
\* project, the third under another project.
CodexProject(r) ==
  CASE r = 1 -> <<"p", "1">>
    [] r = 2 -> NoProject
    [] OTHER -> <<"q", "2">>

CodexPrompt ==
  /\ open
  /\ nextReq <= MaxReq
  /\ Commit(HandlePrompt(Cur, PromptMessage(nextReq, "codex", CodexProject(nextReq)),
                         "ok"))
  /\ nextReq' = nextReq + 1
  /\ UNCHANGED used

ThreadLine ==
  \E r \in Req :
    /\ run[r].spawn = "ok"
    /\ run[r].prov = "codex"
    /\ used < MaxEnv
    /\ Commit(CodexThreadStarted(Cur, r))
    /\ used' = used + 1
    /\ UNCHANGED nextReq

CodexNext ==
  \/ CodexPrompt
  \/ ThreadLine
  \/ Cancel
  \/ ProcExit
  \/ Timeout
  \/ Close

CodexSpec == Init /\ [][CodexNext]_vars

\* A client whose prompts go to the codex runner and carry one image, next
\* to the CodexRunner of another connection of the same server, which is
\* given prompts with images under the same requestIds.
ImagePrompt ==
  /\ open
  /\ nextReq <= MaxReq
  /\ \E proj \in Projects, outcome \in SpawnOutcomes :
       /\ outcome # "ok" => used < MaxEnv
       /\ Commit(HandlePrompt(Cur, [PromptMessage(nextReq, "codex", proj)
                                      EXCEPT !.images = 1], outcome))
       /\ used' = IF outcome # "ok" /\ activeRequestId = NoReq
                      /\ ~InvalidProject(proj)
                  THEN used + 1 ELSE used
  /\ nextReq' = nextReq + 1

\* run() of the other connection's CodexRunner, requestId q, with an image
OtherRun ==
  \E q \in Req :
    /\ imgDir.other[q] = "none"
    /\ Cardinality({x \in Req : imgDir.other[x] # "none"}) < MaxOther
    /\ Commit([Cur EXCEPT !.imgDir.file[q] = "other",
                           !.imgDir.other[q] = "live"])
    /\ UNCHANGED <<nextReq, used>>

\* the exit handler of the other connection's run q: cleanupImages
OtherExit ==
  \E q \in Req :
    /\ imgDir.other[q] = "live"
    /\ Commit([Cur EXCEPT !.imgDir.file[q] = "absent",
                           !.imgDir.other[q] = "done"])
    /\ UNCHANGED <<nextReq, used>>

ImageNext ==
  \/ ImagePrompt
  \/ OtherRun
  \/ OtherExit
  \/ Cancel
  \/ ProcExit
  \/ ProcError
  \/ Timeout
  \/ Close

ImageSpec == Init /\ [][ImageNext]_vars

\* The Change Watcher driven directly, as its tests do: start(), flush() and
\* stop() between writes in the watched directory, timer expiries and reads.
\* The change handler of watcher w appends to sent[w].
WatcherStartCall ==
  /\ nextReq <= MaxWatchers
  /\ Commit([Cur EXCEPT !.watcher[nextReq].state = "running"])
  /\ nextReq' = nextReq + 1
  /\ UNCHANGED used

FileWrite ==
  \E w \in Req, path \in WatchedPaths :
    /\ w < nextReq
    /\ used < MaxWrites
    /\ Commit(FileWritten(Cur, w, path))
    /\ used' = used + 1
    /\ UNCHANGED nextReq

FlushCall ==
  \E w \in Req :
    /\ watcher[w].state = "running"
    /\ \A f \in flushes : f.w # w
    /\ Commit([WatcherFlushStart(Cur, w) EXCEPT
                 !.flushes = @ \cup {[rid |-> NoReq, kind |-> "flush", msg |-> "",
                                      w |-> w, paths |-> watcher[w].pending,
                                      seen |-> watcher[w].disk]}])
    /\ UNCHANGED <<nextReq, used>>

FlushReturn ==
  \E f \in flushes :
    /\ f.kind = "flush"
    /\ Commit([WatcherFlushEnd([Cur EXCEPT !.flushes = @ \ {f}], f.w, f.paths)
                 EXCEPT !.io.flushed = {f}])
    /\ UNCHANGED <<nextReq, used>>

StopCall ==
  \E w \in Req :
    /\ watcher[w].state = "running"
    /\ Commit(WatcherStop(Cur, w))
    /\ UNCHANGED <<nextReq, used>>

FileWatcherNext ==
  \/ WatcherStartCall
  \/ FileWrite
  \/ DebounceFire
  \/ ReadDone
  \/ FlushCall
  \/ FlushReturn
  \/ StopCall

FileWatcherSpec == Init /\ [][FileWatcherNext]_vars

\* Timers fire, file reads complete and the 'error' event of a failed spawn
\* is delivered; the client and a running subprocess may stay silent forever.
FairSpec ==
  /\ Spec
  /\ WF_vars(Timeout)
  /\ WF_vars(ProcError)
  /\ WF_vars(DebounceFire)
  /\ WF_vars(ReadDone)
  /\ WF_vars(FlushDone)

TypeOK ==
  /\ activeRequestId \in 0..MaxReq
  /\ fileWatcher \in 0..MaxReq
  /\ nextReq \in 1..(MaxReq + 1)
  /\ used \in 0..MaxEnv
  /\ isAlive \in BOOLEAN
  /\ tracked \in BOOLEAN

\* ------------------------------------------------------- claim vocabulary
IsTerminalMsg(m) ==
  m.type = "complete" \/ (m.type = "error" /\ m.msg # "in_progress")

NumTerminal(r) ==
  Cardinality({i \in DOMAIN sent[r] : IsTerminalMsg(sent[r][i])})

\* admitted and no terminal message sent for it yet
InFlight(r) == run[r].adm /\ NumTerminal(r) = 0

\* this step wrote exactly one more message for r, and it is a terminal one
TerminalSentStep(r) ==
  /\ Len(sent'[r]) = Len(sent[r]) + 1
  /\ IsTerminalMsg(sent'[r][Len(sent'[r])])

\* handlePrompt, applied in the current state to a fresh requestId, admits it
\* and dispatches it to the runner of the requested provider
AdmitsNextPrompt ==
  \A r \in Req, p \in Providers, proj \in Projects, outcome \in SpawnOutcomes :
    ~run[r].adm =>
      \A t \in {HandlePrompt(Cur, PromptMessage(r, p, proj), outcome)} :
         /\ t.run[r].adm
         /\ t.arunner = p
         /\ p \in t.created
         /\ (~InvalidProject(proj) /\ outcome # "throw")
              => (t.active = r /\ t.runner[p].process = r /\ t.runner[p].timeout = r)

\* a watcher that observes nothing and has no timer and no read outstanding
Stopped(w) == w.state = "off" /\ w.pending = {} /\ w.reading = {}

\* a subprocess the runner spawned that has neither exited nor been killed by it
Live(r) == run[r].spawn = "ok" /\ ~run[r].exited /\ ~run[r].sig

Cancelled == [type |-> "error", msg |-> "cancelled"]
InProgress == [type |-> "error", msg |-> "in_progress"]

C2_AtMostOneTerminal ==
  \A r \in Req : run[r].adm => NumTerminal(r) <= 1

\* C3: for a request with a Change Watcher, no file_change message with its
\* requestId is sent after the complete or error message that onComplete /
\* onError sent for the same requestId.
C3_FileChangesBeforeTerminal ==
  \A r \in Req :
    \A i \in DOMAIN sent[r], j \in DOMAIN sent[r] :
      (/\ i < j
       /\ IsTerminalMsg(sent[r][i])
       /\ sent[r][i] # Cancelled) => sent[r][j].type # "file_change"

\* C4: for a run() call that spawned a subprocess, the 'error' event, the
\* 'exit' event and the timeout together invoke at most one of onComplete /
\* onError, and exactly one once any of them was handled for a run the runner
\* did not kill.
C4_RunnerTerminalDelivery ==
  \A r \in Req :
    run[r].spawn # "none" =>
      /\ run[r].ncb <= 1
      /\ (~run[r].sig /\ (run[r].exited \/ run[r].errored \/ run[r].fired))
            => run[r].ncb = 1

\* C5: the exit of a subprocess that kill() terminated invokes neither
\* onComplete nor onError of the killed run.
C5_KillSuppressesTerminal ==
  [][\A r \in Req :
       (run[r].sig /\ ~run[r].exited /\ run'[r].exited)
          => run'[r].ncb = run[r].ncb]_vars

\* C6: a cancel handled while request r is active, in that one step, stops
\* and discards the watcher without starting a flush, calls kill() on the
\* active runner (its subprocess is signalled, its handle and timer are
\* cleared), sets activeRequestId to null and sends exactly one "Request
\* cancelled" error with requestId r; a prompt handled next is admitted
\* and dispatched although the killed subprocess has not exited.
C6_CancelActiveRequest ==
  [][(Cancel /\ activeRequestId # NoReq) =>
       LET r == activeRequestId
           w == fileWatcher
           p == activeRunner
           x == runner[p].process
       IN /\ fileWatcher' = NoReq
          /\ w # NoReq => Stopped(watcher'[w])
          /\ flushes' = flushes
          /\ runner'[p].process = NoReq
          /\ runner'[p].timeout = NoReq
          /\ x # NoReq => (runner'[p].killed /\ run'[x].sig)
          /\ activeRequestId' = NoReq
          /\ sent' = [sent EXCEPT ![r] = Append(@, Cancelled)]
          /\ AdmitsNextPrompt']_vars

\* C6 witness: request r was cancelled, its subprocess was signalled and has
\* not exited, and a later prompt q is already active with its own subprocess.
C6_Witness ==
  \E r \in Req, q \in Req :
    /\ r < q
    /\ sent[r] = <<Cancelled>>
    /\ run[r].sig
    /\ ~run[r].exited
    /\ activeRequestId = q
    /\ runner[run[q].prov].process = q

\* C7: a cancel handled while no request is active sends nothing, kills
\* nothing and changes no state of the connection, its runners or watchers.
C7_CancelIdleNoOp ==
  [][(Cancel /\ activeRequestId = NoReq) =>
       UNCHANGED <<activeRequestId, activeRunner, created, fileWatcher, open,
                   runner, run, watcher, flushes, sent>>]_vars

\* C8: every step that sends a complete or error message of a request leaves
\* activeRequestId null and the connection open, in a state where the next
\* prompt is admitted and dispatched to the runner of its provider.
C8_ResetAfterTerminal ==
  [][\A r \in Req :
       TerminalSentStep(r) =>
          /\ activeRequestId' = NoReq
          /\ open'
          /\ AdmitsNextPrompt']_vars

\* C8 witness: request r ended with the error of a non-zero exit and a later
\* prompt q is active with its subprocess running.
C8_Witness ==
  \E r \in Req, q \in Req :
    /\ r < q
    /\ sent[r] = <<[type |-> "error", msg |-> "nonzero"]>>
    /\ activeRequestId = q
    /\ runner[run[q].prov].process = q
    /\ Live(q)

\* C9: while the connection stays open, every admitted request is eventually
\* answered with a complete or error message carrying its requestId.
C9_EveryRequestTerminates ==
  \A r \in Req : [](run[r].adm => <>(NumTerminal(r) >= 1 \/ ~open))

\* C10: each runner has at most one subprocess that it spawned and that has
\* neither exited nor been killed by it.
C10_OneSubprocessPerRunner ==
  \A p \in Providers :
    Cardinality({r \in Req : run[r].prov = p /\ Live(r)}) <= 1

\* C11: when the timeout of run r fires before its subprocess exits, that
\* subprocess is killed and the run's one terminal callback is the timeout's
\* onError; the later exit of the subprocess delivers no callback; and the
\* timer never fires for a run whose subprocess already exited or errored.
C11_TimeoutSupersedesExit ==
  [][\A r \in Req :
       /\ (~run[r].fired /\ run'[r].fired) =>
             /\ ~run[r].exited /\ ~run[r].errored
             /\ run'[r].sig
             /\ run[r].ncb = 0
             /\ run'[r].ncb = 1
       /\ (run[r].fired /\ ~run[r].exited /\ run'[r].exited) =>
             run'[r].ncb = run[r].ncb]_vars

\* C12: a disposed Runner stays disposed; a run() on it delivers exactly one
\* onError "Runner has been disposed" with the call's requestId, spawns no
\* subprocess and arms no timer; kill() and dispose() are idempotent, with or
\* without a running subprocess.
C12_DisposedAbsorbing ==
  [][/\ \A p \in Providers :
          /\ runner[p].disposed => runner'[p].disposed
          /\ Kill(Kill(Cur, p), p) = Kill(Cur, p)
          /\ Dispose(Dispose(Cur, p), p) = Dispose(Cur, p)
     /\ (nextReq' # nextReq /\ runner[run'[nextReq].prov].disposed) =>
          /\ sent' = [sent EXCEPT ![nextReq] =
                        Append(@, [type |-> "error", msg |-> "disposed"])]
          /\ runner' = runner
          /\ run'[nextReq].spawn = "none"
          /\ \A q \in Req \ {nextReq} : run'[q] = run[q]]_vars

\* C12 witness: a runner that had spawned a subprocess was disposed, and a
\* later run() on it was answered with the disposed error and spawned nothing.
C12_Witness ==
  \E r \in Req, q \in Req :
    /\ r < q
    /\ run[r].spawn = "ok"
    /\ run[r].sig
    /\ run[q].prov = run[r].prov
    /\ runner[run[q].prov].disposed
    /\ runner[run[q].prov].process = NoReq
    /\ run[q].spawn = "none"
    /\ sent[q] = <<[type |-> "error", msg |-> "disposed"]>>

\* C13: every directory the last step created, watched or handed to a
\* subprocess as working directory resolves inside the session base
\* directory.
C13_PathContainment ==
  \A e \in io.fs : Contained(Base, e.dir)

C15_ErrorCorrelation ==
  [][(/\ io'.recv # <<>>
      /\ SuppliesRequestId(io'.recv[1])
      /\ ~ParseClientMessage(io'.recv[1]).ok \/ activeRequestId # NoReq) =>
       LET r == io'.recv[1].requestId
       IN /\ Len(sent'[r]) = Len(sent[r]) + 1
          /\ sent'[r][Len(sent'[r])].type = "error"
          /\ \A q \in (0..MaxReq) \ {r} : sent'[q] = sent[q]]_vars

\* C16: a prompt admitted on the connection makes exactly one run() call, on
\* the codex runner if and only if its provider is "codex" and on the claude
\* runner otherwise, with the parsed prompt, model, systemPrompt, projectId,
\* requestId, thinkingTokens, images and files; any other message makes no
\* run() call.
C16_DispatchFidelity ==
  [][io'.recv # <<>> =>
       LET raw == io'.recv[1]
           result == ParseClientMessage(raw)
           m == result.message
       IN IF result.ok /\ m.type = "prompt" /\ activeRequestId = NoReq
          THEN /\ Len(io'.runs) = 1
               /\ io'.runs[1].runner = "codex" <=> raw.provider = "codex"
               /\ io'.runs[1].runner = "claude" <=> raw.provider # "codex"
               /\ run'[m.requestId].prov = io'.runs[1].runner
               /\ io'.runs[1].options =
                    [prompt |-> m.prompt, model |-> m.model,
                     systemPrompt |-> m.systemPrompt, projectId |-> m.projectId,
                     requestId |-> m.requestId,
                     thinkingTokens |-> m.thinkingTokens,
                     images |-> m.images, files |-> m.files]
               /\ m.requestId = raw.requestId /\ m.prompt = raw.prompt
               /\ m.model = raw.model /\ m.systemPrompt = raw.systemPrompt
               /\ m.images = raw.images /\ m.files = raw.files
               /\ raw.hasProjectId => m.projectId = raw.projectId
               /\ raw.thinkingTokens >= 0 => m.thinkingTokens = raw.thinkingTokens
          ELSE io'.runs = <<>>]_vars

\* C16 witness: a prompt for codex with every optional field set was
\* dispatched to the codex runner, and one with an unknown provider to the
\* claude runner.
C16_Witness ==
  /\ io.runs # <<>>
  /\ io.runs[1].runner = "codex"
  /\ io.runs[1].options.thinkingTokens = 1000
  /\ io.runs[1].options.images = MAX_IMAGES
  /\ io.runs[1].options.model = "m1"
  /\ \E r \in Req : run[r].prov = "claude" /\ run[r].adm

StreamOf(log) == SelectSeq(log, LAMBDA m : m.type \in {"chunk", "tool_event"})

\* C18: while the connection is open, every stdout line read for a request
\* appends exactly the chunk and tool_event messages of that line, in the
\* line's order, after those already sent for the request, and no other step
\* adds, removes or moves a chunk or tool_event message.
C18_InOrderStreaming ==
  [][\A r \in Req :
       StreamOf(sent'[r]) =
         StreamOf(sent[r]) \o
           (IF open /\ io'.lines # <<>> /\ io'.lines[1].rid = r
            THEN LineMessages(io'.lines[1].line) ELSE <<>>)]_vars

\* C18 witness: a delta line and then an assistant message with several
\* blocks were read for one request; its log holds their messages in order.
C18_Witness ==
  \E r \in Req :
    /\ io.lines # <<>>
    /\ io.lines[1].rid = r
    /\ Len(LineMessages(io.lines[1].line)) = 4
    /\ StreamOf(sent[r]) =
         <<[type |-> "chunk", msg |-> "a"]>> \o LineMessages(io.lines[1].line)

\* C19: the step that handles the close of the connection disposes every
\* Runner the connection created (so none keeps a subprocess or a timer),
\* stops the watcher without starting a flush or emitting a change, and
\* removes the connection from the server's connection set.
C19_CloseCleanup ==
  [][(open /\ ~open') =>
       /\ created' = created
       /\ \A p \in created :
            /\ runner'[p].disposed
            /\ runner'[p].process = NoReq
            /\ runner'[p].timeout = NoReq
       /\ fileWatcher # NoReq => Stopped(watcher'[fileWatcher])
       /\ flushes' = flushes
       /\ sent' = sent
       /\ ~tracked']_vars

\* C19 witness: the connection was closed while it owned both runners, the
\* one not last used still had its subprocess, and the watcher was running.
C19_Witness ==
  /\ ~open
  /\ ~tracked
  /\ created = Providers
  /\ \A p \in Providers : runner[p].disposed
  /\ \E r \in Req :
       /\ run[r].prov # activeRunner
       /\ run[r].spawn = "ok" /\ run[r].sig /\ ~run[r].exited
       /\ sent[r] = <<>>
  /\ io = IoNone

C21_BoundaryAdmission ==
  [][io'.conn # <<>> =>
       LET a == io'.conn[1]
           originOk == \/ server.allowedOrigins = {}
                       \/ a.origin # NoOrigin /\ a.origin \in server.allowedOrigins
           tokenOk == server.authToken = "" \/ a.token = server.authToken
       IN /\ ~originOk => io'.closeCode = ORIGIN_NOT_ALLOWED
          /\ (originOk /\ ~tokenOk) => io'.closeCode = INVALID_TOKEN
          /\ (originOk /\ tokenOk) => (io'.closeCode = 0 /\ tracked' /\ open')
          /\ io'.closeCode # 0 =>
               UNCHANGED <<activeRequestId, activeRunner, created, fileWatcher,
                           open, runner, run, watcher, flushes, sent, isAlive,
                           tracked>>]_vars

\* C21 witness: with both checks configured, an attempt that fails both was
\* just closed with the origin status, and no connection is tracked.
C21_Witness ==
  /\ io.conn # <<>>
  /\ server.allowedOrigins # {}
  /\ server.authToken # ""
  /\ io.conn[1].origin \notin server.allowedOrigins
  /\ io.conn[1].token # server.authToken
  /\ io.closeCode = ORIGIN_NOT_ALLOWED
  /\ ~tracked
  /\ sent[NoReq] = <<>>

\* the connected messages in all logs of the connection
NumConnected ==
  Cardinality({<<r, i>> \in (0..MaxReq) \X (1..(2 * MaxReq + 4)) :
                 i \in DOMAIN sent[r] /\ sent[r][i].type = "connected"})

\* C22: the step that accepts a connection finds nothing sent yet and sends
\* the connected message with version "1.0", the configured agent name and
\* the configured mode, "safe" if none is configured; no other step ever
\* sends a connected message. So an accepted connection gets exactly one
\* connected message, ahead of every other message.
C22_ConnectedHandshake ==
  [][/\ (~tracked /\ tracked') =>
          /\ \A r \in 0..MaxReq : sent[r] = <<>>
          /\ sent' = [sent EXCEPT ![NoReq] =
               <<[type |-> "connected",
                  msg |-> "1.0/"
                          \o (IF server.agentName = "undefined"
                              THEN "agent-ws" ELSE server.agentName)
                          \o "/"
                          \o (IF server.mode = "undefined"
                              THEN "safe" ELSE server.mode)]>>]
     /\ ~(~tracked /\ tracked') =>
          \A r \in 0..MaxReq :
            /\ Len(sent'[r]) >= Len(sent[r])
            /\ \A i \in DOMAIN sent'[r] :
                 (i > Len(sent[r]) => sent'[r][i].type # "connected")
     /\ server.accepted => (sent[NoReq] # <<>> /\ sent[NoReq][1].type = "connected")
    ]_vars

\* C22 witness: a connection accepted without a configured mode has been
\* told mode "safe" first and has had other messages since.
C22_Witness ==
  /\ server.mode = "undefined"
  /\ sent[NoReq] # <<>>
  /\ sent[NoReq][1] = [type |-> "connected", msg |-> "1.0/agent-ws/safe"]
  /\ \E r \in Req : sent[r] # <<>>
  /\ NumConnected = 1

\* C23: a call of stop() leaves no heartbeat timer and no rejection-flush
\* timer, reports every pending rejection count in one line per origin and
\* empties the counter map, disposes every runner of the tracked connection
\* and stops its watcher, empties the connection set and closes the
\* listening socket; the close event of a socket that was terminated changes
\* nothing when it is handled afterwards.
C23_GlobalStop ==
  [][/\ io'.stop =>
          /\ ~server'.heartbeatInterval
          /\ ~server'.rejectionFlushInterval
          /\ server'.rejectionCounts = [o \in Origins |-> NoEntry]
          /\ io'.warn = {[origin |-> o, count |-> server.rejectionCounts[o]] :
                           o \in {x \in Origins : server.rejectionCounts[x] > 0}}
          /\ tracked =>
               /\ \A p \in created :
                    /\ runner'[p].disposed
                    /\ runner'[p].process = NoReq
                    /\ runner'[p].timeout = NoReq
               /\ fileWatcher # NoReq => Stopped(watcher'[fileWatcher])
               /\ io'.terminate
          /\ ~tracked'
          /\ ~open'
          /\ ~server'.wss
     /\ (server.closePending /\ ~server'.closePending) =>
          /\ UNCHANGED <<activeRequestId, activeRunner, created, fileWatcher, open,
                         runner, run, watcher, flushes, sent, isAlive, tracked>>
          /\ server' = [server EXCEPT !.closePending = FALSE]]_vars

\* C23 witness: stop() has just run on a server with a pending rejection
\* count and a tracked connection whose request had a live subprocess.
C23_Witness ==
  /\ io.stop
  /\ io.terminate
  /\ io.warn # {}
  /\ activeRequestId # NoReq
  /\ run[activeRequestId].sig
  /\ ~run[activeRequestId].exited
  /\ runner[activeRunner].disposed
  /\ ~server.wss

\* C24: a rejection for an origin without a counter logs one line at once,
\* opens the counter at zero and makes sure the flush timer runs; a
\* rejection for an origin with a counter logs nothing and adds one to it.
\* A flush logs exactly one line per origin whose counter is above zero,
\* with that count, removes all counters and stops the flush timer. At all
\* times the rejections so far are the lines logged at once plus the counts
\* reported by flushes plus the counts still pending.
C24_RejectionDampening ==
  [][/\ io'.closeCode # 0 =>
          LET o == io'.conn[1].origin
          IN /\ server'.rejected = server.rejected + 1
             /\ server'.reported = server.reported
             /\ IF server.rejectionCounts[o] = NoEntry
                THEN /\ io'.warn = {[origin |-> o, count |-> 0]}
                     /\ server'.logged = server.logged + 1
                     /\ server'.rejectionCounts =
                          [server.rejectionCounts EXCEPT ![o] = 0]
                     /\ server'.rejectionFlushInterval
                ELSE /\ io'.warn = {}
                     /\ server'.logged = server.logged
                     /\ server'.rejectionCounts =
                          [server.rejectionCounts EXCEPT ![o] = @ + 1]
                     /\ server'.rejectionFlushInterval
                          = server.rejectionFlushInterval
     /\ ((server.rejectionFlushInterval /\ ~server'.rejectionFlushInterval)
         \/ io'.stop) =>
          /\ io'.warn = {[origin |-> o, count |-> server.rejectionCounts[o]] :
                           o \in {x \in Origins : server.rejectionCounts[x] > 0}}
          /\ server'.reported =
               server.reported + SumCounts(server.rejectionCounts, Origins)
          /\ server'.rejected = server.rejected
          /\ server'.logged = server.logged
          /\ server'.rejectionCounts = [o \in Origins |-> NoEntry]
          /\ ~server'.rejectionFlushInterval
     /\ server'.rejected =
          server'.logged + server'.reported
          + SumCounts(server'.rejectionCounts, Origins)]_vars

\* C24 witness: three rejections of one origin were logged as one line at
\* once and, by the flush that just ran, one aggregated line counting two.
C24_Witness ==
  /\ \E o \in Origins : io.warn = {[origin |-> o, count |-> 2]}
  /\ server.rejected = 3
  /\ server.logged = 1
  /\ server.reported = 2
  /\ ~server.rejectionFlushInterval
  /\ ~io.stop

\* the positions of log that hold a change record of path p
ChangesOf(log, p) ==
  {i \in DOMAIN log :
     /\ log[i].type = "file_change"
     /\ \E n \in 0..(MaxWrites + 1) : log[i].msg = ChangeText(p, n)}

NumChanges(w, p) == Cardinality(ChangesOf(sent[w], p))

\* the deliveries of p that watcher w still owes: a pending timer, a read in
\* flight, a flush in progress
Outstanding(w, p) ==
  (IF p \in watcher[w].pending THEN 1 ELSE 0)
  + (IF p \in watcher[w].reading THEN 1 ELSE 0)
  + Cardinality({f \in flushes : f.w = w /\ p \in f.paths})

\* C25: flush() cancels every debounce timer pending at the call; when it
\* returns on a watcher that was not stopped meanwhile, the handler has got
\* exactly one change for each path that was pending at the call, and a timer
\* still pending then was started by a write made after the call; a cancelled
\* timer never delivers its path again (no path is delivered, or owed, more
\* often than it was written).
C25_FlushStep ==
  /\ \A f \in flushes' \ flushes :
       /\ f.paths = watcher[f.w].pending
       /\ watcher'[f.w].pending = {}
  /\ \A f \in flushes \ flushes' :
       watcher[f.w].state = "running" =>
         /\ \A p \in f.paths :
              Cardinality(ChangesOf(sent'[f.w], p)) = NumChanges(f.w, p) + 1
         /\ \A p \in WatchedPaths \ f.paths :
              ChangesOf(sent'[f.w], p) = ChangesOf(sent[f.w], p)
         /\ \A p \in watcher'[f.w].pending :
              watcher[f.w].disk[p] > f.seen[p]

WithinOneWindow(w, p) ==
  /\ watcher[w].disk[p] >= 1
  /\ watcher[w].restarts[p] = watcher[w].disk[p] - 1

LastChange(w, p) ==
  LET ix == ChangesOf(sent[w], p)
  IN sent[w][CHOOSE i \in ix : \A j \in ix : j <= i]

\* C27: a raw event for a path whose debounce timer is pending restarts that
\* one timer (no read starts, nothing is emitted); so a file written and then
\* rewritten within the quiet period yields at most two change records for
\* its path, and the last one carries the content written last.
C27_RestartStep ==
  \A w \in Req, p \in WatchedPaths :
    (p \in watcher[w].pending /\ watcher'[w].disk[p] > watcher[w].disk[p]) =>
      /\ watcher'[w].pending = watcher[w].pending
      /\ watcher'[w].reading = watcher[w].reading
      /\ sent'[w] = sent[w]

C27_WatcherDebounce ==
  /\ [][C27_RestartStep]_vars
  /\ [](\A w \in Req, p \in WatchedPaths :
          WithinOneWindow(w, p) =>
            /\ NumChanges(w, p) <= 2
            /\ NumChanges(w, p) >= 1 =>
                 LastChange(w, p).msg = ChangeText(p, watcher[w].disk[p]))

\* written, rewritten twice within the window, then delivered with content 3
C27_Witness ==
  /\ watcher[1].disk["a.txt"] = 3
  /\ WithinOneWindow(1, "a.txt")
  /\ NumChanges(1, "a.txt") = 1
  /\ LastChange(1, "a.txt").msg = "a.txt v3"

\* this step ends with the terminal message of r being sent
OwnTerminalStep(r) ==
  /\ Len(sent'[r]) > Len(sent[r])
  /\ IsTerminalMsg(sent'[r][Len(sent'[r])])

\* C28: while the connection is open, a step that sets activeRequestId from a
\* request r to null is the completion, the error or the cancellation of r
\* itself (its terminal message is sent in that step), and activeRequestId
\* never changes from r to another request; no late event of an earlier
\* request clears it.
C28_ClearedByOwnRequest ==
  [][\A r \in Req :
       (activeRequestId = r /\ activeRequestId' # r /\ open') =>
         /\ activeRequestId' = NoReq
         /\ OwnTerminalStep(r)]_vars

\* C29: a Codex run whose output stream carried a failure line ("turn.failed"
\* or "error") and whose subprocess then exited, without having been killed,
\* has had exactly one terminal callback (onError or onComplete) invoked.
C29_StreamFailureOnce ==
  \A r \in Req :
    (/\ run[r].prov = "codex"
     /\ run[r].nline >= 1
     /\ run[r].exited
     /\ ~run[r].sig) => run[r].ncb + run[r].nline = 1

\* C30: the process handle of a runner stops naming subprocess r only when r
\* itself exits, raises 'error' or is signalled by kill(); so the handle names
\* every subprocess the runner spawned that has neither exited nor been
\* killed, and kill() reaches it.
C30_HandleStep ==
  \A p \in Providers, r \in Req :
    (runner[p].process = r /\ runner'[p].process # r) =>
      \/ run'[r].exited /\ ~run[r].exited
      \/ run'[r].errored /\ ~run[r].errored
      \/ run'[r].sig /\ ~run[r].sig

C30_HandleNamesLiveProcess ==
  /\ [][C30_HandleStep]_vars
  /\ [](\A r \in Req : Live(r) => runner[run[r].prov].process = r)

StreamTypes == {"chunk", "tool_event", "file_change"}

\* C31: once the terminal message of a request (complete, error or "Request
\* cancelled") was sent, no chunk, tool_event or file_change message with
\* that requestId is sent.
C31_NoEventsAfterTerminal ==
  \A r \in Req :
    \A i \in DOMAIN sent[r], j \in DOMAIN sent[r] :
      (i < j /\ IsTerminalMsg(sent[r][i])) => sent[r][j].type \notin StreamTypes

\* C32: a flush started by a terminal callback of request r flushes the
\* watcher started for r, and while the connection is open the watcher of
\* request w is stopped and discarded only by a step that ends w (its
\* terminal message is sent) or by a prompt that replaces it with its own.
C32_DiscardStep ==
  \A w \in Req :
    (fileWatcher = w /\ fileWatcher' # w /\ open') =>
      \/ OwnTerminalStep(w)
      \/ fileWatcher' # NoReq /\ activeRequestId' = fileWatcher'

C32_WatcherOwnership ==
  /\ [][C32_DiscardStep]_vars
  /\ [](\A f \in flushes : f.kind # "flush" => f.w = f.rid)

\* C33: every run whose subprocess has neither exited nor been killed has
\* its timeout timer armed.
C33_TimerPerRun ==
  \A r \in Req : Live(r) => runner[run[r].prov].timeout = r

\* C34: a Codex subprocess is told to resume thread T only when its run has
\* a projectId and T was captured from the thread.started line of an earlier
\* run with the same projectId.
C34_ThreadScopedToProject ==
  \A q \in Req :
    LET T == run[q].resume
    IN T # NoReq =>
         /\ T < q
         /\ CodexProject(q) # NoProject
         /\ CodexProject(T) = CodexProject(q)

\* the tool ids of the stream lines; "" stands for an absent id
ToolIds == {"t1", ""}

\* C35: every tool_event with phase complete sent for a run is preceded, in
\* the same run, by a tool_event with phase start and the same toolId.
C35_ToolEventPairs ==
  \A r \in Req :
    \A j \in DOMAIN sent[r], id \in ToolIds :
      (sent[r][j].type = "tool_event" /\ sent[r][j].msg = "complete:" \o id) =>
        \E i \in 1..(j - 1) :
          sent[r][i].type = "tool_event" /\ sent[r][i].msg = "start:" \o id

\* C37: a cancel message ends the active request whatever requestId it
\* carries: activeRequestId becomes null, the active runner's subprocess is
\* killed, and the one message sent is "Request cancelled" with the id of the
\* request that was active (nothing is sent when none was).
C37_CancelIgnoresRequestId ==
  [][(/\ io'.recv # <<>>
      /\ io'.recv[1].type = "cancel"
      /\ ParseClientMessage(io'.recv[1]).ok) =>
       LET a == activeRequestId
       IN /\ activeRequestId' = NoReq
          /\ activeRunner # "none" => runner'[activeRunner].process = NoReq
          /\ a # NoReq => sent'[a] = Append(sent[a], Cancelled)
          /\ \A q \in (0..MaxReq) \ {a} : sent'[q] = sent[q]
          /\ a = NoReq => sent' = sent]_vars

\* a cancel naming request 1 was received while request 2 was active, and
\* request 2 got "Request cancelled"
C37_Witness ==
  /\ io.recv # <<>>
  /\ io.recv[1].type = "cancel"
  /\ io.recv[1].requestId = 1
  /\ run[2].adm
  /\ sent[2] # <<>>
  /\ sent[2][Len(sent[2])] = Cancelled
  /\ Cancelled \notin {sent[1][i] : i \in DOMAIN sent[1]}

\* the exit event of r's subprocess is handled in this step, r was not killed
\* and no terminal event (error event, timeout, failure line) came before
FirstTerminalExitStep(r) ==
  /\ ~run[r].exited /\ run'[r].exited
  /\ ~run[r].sig
  /\ ~run[r].errored /\ ~run[r].fired /\ ~run[r].done
  /\ run[r].nline = 0

\* C36: when the exit of a subprocess that was not killed is the first
\* terminal event of its run, exactly one terminal callback is invoked:
\* onComplete for exit code 0, onError naming the code for a non-zero code,
\* onError naming the signal for a null code.
C36_ExitMapping ==
  [][\A r \in Req :
       FirstTerminalExitStep(r) =>
         /\ run'[r].ncb = run[r].ncb + 1
         /\ io'.exit = "zero" =>
              sent'[r] = Append(sent[r], [type |-> "complete", msg |-> ""])
         /\ io'.exit = "nonzero" =>
              sent'[r] = Append(sent[r], [type |-> "error", msg |-> "nonzero"])
         /\ io'.exit = "signal" =>
              sent'[r] = Append(sent[r], [type |-> "error", msg |-> "signal"])]_vars

\* run r wrote image files and its subprocess is alive
OwningSubprocessAlive(r) ==
  /\ r \in imgDir.paths
  /\ run[r].spawn = "ok"
  /\ ~run[r].exited

\* the run() call of r has terminated: it was rejected or spawn threw (no
\* subprocess), or its subprocess exited or emitted a process error
RunTerminated(r) ==
  /\ run[r].adm
  /\ run[r].spawn = "none" \/ run[r].exited \/ run[r].errored

\* C38: temp image files are private to their run.  While the subprocess of
\* a Codex run that wrote image files is alive, the files are on disk with
\* the content that run wrote: no run of another connection, even one with
\* the same requestId, has overwritten or deleted them.
C38_ImagesPrivateToRun ==
  \A r \in Req : OwningSubprocessAlive(r) => imgDir.file[r] = "own"

\* C39: temp image files do not leak.  Once a Codex run() call has
\* terminated (rejected with "Invalid projectId", spawn failure, exit,
\* process error, timeout or kill followed by exit), none of the image
\* files that call wrote remains on disk.
C39_ImagesDoNotLeak ==
  \A r \in Req : RunTerminated(r) => imgDir.file[r] # "own"

====
